---- MODULE Spec2Model ----
(***************************************************************************)
(* Reading session of leiacomigo: the word-alignment engine of the Reading *)
(* page (processSpokenWords over currentWordIndex / wordStatuses), the     *)
(* text-matching library it calls and the part of the speech-recognition   *)
(* hook that decides when a final transcript reaches it.                   *)
(*                                                                         *)
(* A JavaScript string is a sequence of one-character strings.             *)
(***************************************************************************)
EXTENDS Integers, Sequences, FiniteSets, TLC

(***************************************************************************)
(* Bounds of the model.                                                    *)
(***************************************************************************)
\* number of words of the story that make up the target text
NumWords == 3
\* number of words of the story in the target text of the milestone runs
MilestoneWords == 12
\* largest number of tokens in one recognizer transcript
MaxTokens == 2
\* largest value of consecutiveRestartsRef that is followed
MaxRestarts == 7
\* largest length of a string given to the text-matching functions
MaxLen == 4

(***************************************************************************)
(* Characters and strings.                                                 *)
(***************************************************************************)
UpperLetters == <<"A","B","C","D","E","F","G","H","I","J","K","L","M",
                  "N","O","P","Q","R","S","T","U","V","W","X","Y","Z",
                  "Á","É","Í","Ó","Ú","Â","Ê","Ô","Ã","Õ","Ç">>
LowerLetters == <<"a","b","c","d","e","f","g","h","i","j","k","l","m",
                  "n","o","p","q","r","s","t","u","v","w","x","y","z",
                  "á","é","í","ó","ú","â","ê","ô","ã","õ","ç">>
\* the letters above that NFD decomposes into a base letter and a combining mark
AccentedLetters == <<"á","é","í","ó","ú","â","ê","ô","ã","õ","ç",
                     "Á","É","Í","Ó","Ú","Â","Ê","Ô","Ã","Õ","Ç">>
BaseLetters     == <<"a","e","i","o","u","a","e","o","a","o","c",
                     "A","E","I","O","U","A","E","O","A","O","C">>
Digits == {"0","1","2","3","4","5","6","7","8","9"}
AsciiLetters == {UpperLetters[i] : i \in 1..26} \cup {LowerLetters[i] : i \in 1..26}

\* the case mapping and the canonical decomposition, as tables
lowerCaseOf ==
  [c \in {UpperLetters[i] : i \in 1..Len(UpperLetters)} |->
     LowerLetters[CHOOSE i \in 1..Len(UpperLetters) : UpperLetters[i] = c]]
baseLetterOf ==
  [c \in {AccentedLetters[i] : i \in 1..Len(AccentedLetters)} |->
     BaseLetters[CHOOSE i \in 1..Len(AccentedLetters) : AccentedLetters[i] = c]]

\* String.prototype.toLowerCase, one character
toLowerCase(c) == IF c \in DOMAIN lowerCaseOf THEN lowerCaseOf[c] ELSE c

\* normalize("NFD") followed by the removal of U+0300..U+036F, one character
stripAccent(c) == IF c \in DOMAIN baseLetterOf THEN baseLetterOf[c] ELSE c

\* the regular-expression classes \s and \w
isSpace(c) == c \in {" ", "\t", "\n"}
WordChars == AsciiLetters \cup Digits \cup {"_"}
isWordChar(c) == c \in WordChars

\* String.prototype.toLowerCase
lowerCase(s) == [i \in 1..Len(s) |-> toLowerCase(s[i])]

\* normalize("NFD").replace(/[\u0300-\u036f]/g, "")
stripAccents(s) == [i \in 1..Len(s) |-> stripAccent(s[i])]

\* String.prototype.trim
RECURSIVE trimStart(_)
trimStart(s) == IF s # <<>> /\ isSpace(Head(s)) THEN trimStart(Tail(s)) ELSE s
RECURSIVE trimEnd(_)
trimEnd(s) ==
  IF s # <<>> /\ isSpace(s[Len(s)]) THEN trimEnd(SubSeq(s, 1, Len(s) - 1)) ELSE s
trim(s) == trimEnd(trimStart(s))

keepWordOrSpace(c) == isWordChar(c) \/ isSpace(c)

\* normalizeText that trims before it removes the punctuation
normalizeText_trimFirst(text) ==
  SelectSeq(stripAccents(lowerCase(trim(text))), keepWordOrSpace)

\* textMatching.normalizeText
normalizeText(text) ==
  trim(SelectSeq(stripAccents(lowerCase(text)), keepWordOrSpace))

Min2(a, b) == IF a < b THEN a ELSE b
Min3(a, b, c) == Min2(a, Min2(b, c))

\* the inner loop without the substitution, matrix[i - 1][j - 1] + 1
RECURSIVE levenshteinRow_noSubstitution(_, _, _, _)
levenshteinRow_noSubstitution(str1, c, above, row) ==
  LET j == Len(row)
  IN IF j > Len(str1) THEN row
     ELSE levenshteinRow_noSubstitution(str1, c, above,
            Append(row, IF c = str1[j] THEN above[j]
                        ELSE Min2(row[j] + 1, above[j + 1] + 1)))

\* the inner loop of levenshteinDistance, lines 279-289: row holds
\* matrix[i][0..j-1], above holds matrix[i-1], c is str2.charAt(i - 1)
RECURSIVE levenshteinRow(_, _, _, _)
levenshteinRow(str1, c, above, row) ==
  LET j == Len(row)
  IN IF j > Len(str1) THEN row
     ELSE levenshteinRow(str1, c, above,
            Append(row, IF c = str1[j] THEN above[j]
                        ELSE Min3(above[j] + 1, row[j] + 1, above[j + 1] + 1)))

\* the outer loop, lines 278-290: above holds matrix[i-1], complete; the result
\* is the last row of the matrix
RECURSIVE levenshteinRows(_, _, _, _)
levenshteinRows(str1, str2, above, i) ==
  IF i > Len(str2) \/ Len(above) <= Len(str1) THEN above
  ELSE levenshteinRows(str1, str2, levenshteinRow(str1, str2[i], above, <<i>>), i + 1)

\* textMatching.levenshteinDistance: matrix[i][j], i over str2 and j over str1;
\* a row is the sequence matrix[i][0], ..., matrix[i][str1.length]
levenshteinDistance(str1, str2) ==
  levenshteinRows(str1, str2, [j \in 1..(Len(str1) + 1) |-> j - 1], 1)[Len(str1) + 1]

\* calculateSimilarity that takes str1 for the longer string
calculateSimilarity_byFirst(str1, str2) ==
  IF str1 = str2 THEN [num |-> 1, den |-> 1]
  ELSE IF Len(str1) = 0 \/ Len(str2) = 0 THEN [num |-> 0, den |-> 1]
  ELSE LET longerLength == Len(str1)
           editDistance == levenshteinDistance(str1, str2)
       IN [num |-> longerLength - editDistance, den |-> longerLength]

\* textMatching.calculateSimilarity: the quotient num / den, kept as a fraction
calculateSimilarity(str1, str2) ==
  IF str1 = str2 THEN [num |-> 1, den |-> 1]
  ELSE IF Len(str1) = 0 \/ Len(str2) = 0 THEN [num |-> 0, den |-> 1]
  ELSE LET longer  == IF Len(str1) > Len(str2) THEN str1 ELSE str2
           shorter == IF Len(str1) > Len(str2) THEN str2 ELSE str1
           longerLength == Len(longer)
           editDistance == levenshteinDistance(longer, shorter)
       IN [num |-> longerLength - editDistance, den |-> longerLength]

\* similarity >= tenths / 10
atLeastTenths(similarity, tenths) == 10 * similarity.num >= tenths * similarity.den

Abs(n) == IF n < 0 THEN 0 - n ELSE n

\* String.prototype.includes
includes(text, searchString) ==
  \E i \in 0..(Len(text) - Len(searchString)) :
     SubSeq(text, i + 1, i + Len(searchString)) = searchString

\* textMatching.wordsMatch as the source has it a first time, before the
\* tiered one: a spoken word that contains the expected one matches, and so
\* does a similarity above 0.7
wordsMatchEarlier(spoken, expected) ==
  LET normalizedSpoken   == normalizeText(spoken)
      normalizedExpected == normalizeText(expected)
      similarity == calculateSimilarity(normalizedSpoken, normalizedExpected)
  IN IF normalizedSpoken = normalizedExpected THEN TRUE
     ELSE IF includes(normalizedSpoken, normalizedExpected) THEN TRUE
     ELSE 10 * similarity.num > 7 * similarity.den

\* wordsMatch that asks 70% of the normal words
wordsMatch_seventyPercent(spoken, expected) ==
  LET normalizedSpoken   == normalizeText(spoken)
      normalizedExpected == normalizeText(expected)
      lengthDiff == Abs(Len(normalizedSpoken) - Len(normalizedExpected))
      similarity == calculateSimilarity(normalizedSpoken, normalizedExpected)
  IN IF normalizedSpoken = normalizedExpected THEN TRUE
     ELSE IF Len(normalizedExpected) <= 2 /\ lengthDiff <= 2
             /\ atLeastTenths(similarity, 6) THEN TRUE
     ELSE IF lengthDiff <= 2 THEN atLeastTenths(similarity, 7)
     ELSE FALSE

\* wordsMatch without the tier of the short expected words
wordsMatch_noShortTier(spoken, expected) ==
  LET normalizedSpoken   == normalizeText(spoken)
      normalizedExpected == normalizeText(expected)
      lengthDiff == Abs(Len(normalizedSpoken) - Len(normalizedExpected))
      similarity == calculateSimilarity(normalizedSpoken, normalizedExpected)
  IN IF normalizedSpoken = normalizedExpected THEN TRUE
     ELSE IF lengthDiff <= 2 THEN atLeastTenths(similarity, 8)
     ELSE FALSE

\* textMatching.wordsMatch
wordsMatch(spoken, expected) ==
  LET normalizedSpoken   == normalizeText(spoken)
      normalizedExpected == normalizeText(expected)
      lengthDiff == Abs(Len(normalizedSpoken) - Len(normalizedExpected))
      similarity == calculateSimilarity(normalizedSpoken, normalizedExpected)
  IN IF normalizedSpoken = normalizedExpected THEN TRUE
     ELSE IF Len(normalizedExpected) <= 2 /\ lengthDiff <= 2
             /\ atLeastTenths(similarity, 6) THEN TRUE
     ELSE IF lengthDiff <= 2 THEN atLeastTenths(similarity, 8)
     ELSE FALSE

\* String.prototype.split(/\s+/): the pieces between maximal runs of whitespace,
\* an empty piece included where the text starts or ends with whitespace
RECURSIVE splitWhitespace(_)
splitWhitespace(text) ==
  LET spaces == { i \in 1..Len(text) : isSpace(text[i]) }
  IN IF spaces = {} THEN <<text>>
     ELSE LET from == CHOOSE i \in spaces : \A k \in spaces : i <= k
              to   == CHOOSE j \in from..Len(text) :
                        /\ \A k \in from..j : k \in spaces
                        /\ j + 1 \notin spaces
          IN <<SubSeq(text, 1, from - 1)>>
             \o splitWhitespace(SubSeq(text, to + 1, Len(text)))

nonEmpty(word) == Len(word) > 0

\* textMatching.extractWords
extractWords(text) ==
  SelectSeq(splitWhitespace(lowerCase(text)), nonEmpty)


(***************************************************************************)
(* The story and the recognizer's transcripts.                             *)
(***************************************************************************)
\* STORIES_DATA["2"].text, the default story
StoryText == <<"E","r","a"," ","u","m","a"," ","v","e","z"," ","u","m","a",
               " ","t","a","r","t","a","r","u","g","a"," ","m","u","i","t",
               "o"," ","s","á","b","i","a","."," ","U","m"," ","d","i","a",
               ","," ","u","m","a"," ","l","e","b","r","e"," ","v","e","l",
               "o","z"," ","p","a","s","s","o","u"," ","p","o","r"," ","e",
               "l","a","."," ","A"," ","t","a","r","t","a","r","u","g","a",
               " ","v","e","n","c","e","u"," ","a"," ","c","o","r","r","i",
               "d","a",".">>

\* story.text.split(/\s+/)
storyWords == splitWhitespace(StoryText)

\* the target texts of the model: the first words of the story
ShortTarget == SubSeq(storyWords, 1, NumWords)
LongTarget == SubSeq(storyWords, 1, MilestoneWords)
Targets == { ShortTarget, LongTarget }

RECURSIVE joinWords(_)
joinWords(ws) ==
  IF ws = <<>> THEN <<>>
  ELSE IF Len(ws) = 1 THEN ws[1]
  ELSE ws[1] \o <<" ">> \o joinWords(Tail(ws))

\* a word of the text as the recognizer writes it: lower case, no punctuation
isPunctuation(c) == c \in { ".", ",", "!", "?" }
notPunctuation(c) == ~isPunctuation(c)
spokenForm(w) == SelectSeq(lowerCase(w), notPunctuation)

\* a word that is none of the first words of the story
Misreading == <<"e","l","a">>

\* k words of target from its i-th word on, as spoken
reading(target, i, k) == [j \in 1..k |-> spokenForm(target[i + j - 1])]

\* what the reader says in one breath: k words of the target read in order; the
\* same with a misreading in front of them or in place of the last of them, or
\* with the last but one said twice
Utterances(target) ==
  UNION { { reading(target, i, k),
            <<Misreading>> \o reading(target, i, k - 1),
            reading(target, i, k - 1) \o <<Misreading>>,
            reading(target, i, k - 1)
              \o reading(target, i + k - 2, IF k > 1 THEN 1 ELSE 0) } :
          <<i, k>> \in { <<i, k>> \in (1..Len(target)) \X (1..MaxTokens) :
                           i + k - 1 <= Len(target) } }

\* transcripts of recognition results: the utterances, and some with capitals,
\* surrounding or doubled whitespace, or whitespace only
Transcripts(target) ==
  { joinWords(ws) : ws \in Utterances(target) }
  \cup { <<" ">>, <<" ","E","r","a">>, <<"e","r","a"," "," ","U","m","a"," ">> }

\* SpeechRecognitionAlternative.confidence in percent; -1 is undefined (Safari)
Undefined == 0 - 1
Confidences == { Undefined, 30, 90 }

\* one SpeechRecognitionResult of an onresult event: a final result with any
\* transcript, any confidence with one of the transcripts, or an interim result
Results(target) ==
  [ transcript : Transcripts(target), isFinal : {TRUE}, confidence : {Undefined} ]
  \cup [ transcript : {<<"e","r","a">>}, isFinal : BOOLEAN, confidence : Confidences ]

WordStatus == { "pending", "current", "correct", "incorrect" }

(***************************************************************************)
(* State.                                                                  *)
(***************************************************************************)
VARIABLES
  words,                 \* Reading: story.text.split(/\s+/), fixed at mount
  currentWordIndex,      \* Reading: useState(0)
  wordStatuses,          \* Reading: useState(words.map(...)), indexed from 0
  isListening,           \* useSpeechRecognition: useState(false)
  shouldBeListeningRef,  \* useSpeechRecognition: useRef(false)
  restartTimer,          \* safariRestartTimeoutRef holds a pending timeout
  consecutiveRestartsRef,\* useSpeechRecognition: useRef(0)
  recognition,           \* the browser's SpeechRecognition object
  interimTranscript,     \* useSpeechRecognition: useState("")
  showCelebration,       \* Reading: useState(false); TRUE while its timeout is pending
  permissionDenied,      \* Reading: useState(false)
  isSpeaking,            \* useSpeechSynthesis: useState(false)
  milestones,            \* the values of localWordIndex celebrated since the last reset
  call,                  \* a call of a text-matching function: arguments and result
  mounted,               \* the Reading page is mounted
  quickEnds,             \* the sessions in a row that started and ended within
                         \* 1000 ms while listening was wanted, where they are counted
  onResultRef,           \* useSpeechRecognition: useRef(onResult); the currentWordIndex
                         \* and isListening its processSpokenWords closed over
  last                   \* the last handler that ran, and the session before it

vars == << words, currentWordIndex, wordStatuses, isListening, shouldBeListeningRef,
           restartTimer, consecutiveRestartsRef, recognition, interimTranscript,
           showCelebration, permissionDenied, isSpeaking, milestones, call, mounted,
           quickEnds, onResultRef, last >>

\* Reading.words.length and words[i]
N == Len(words)
wordAt(i) == words[i + 1]

\* Reading.isComplete
isComplete == currentWordIndex >= N

\* Reading.progress, in percent, as the fraction num / den
progress == [num |-> currentWordIndex * 100, den |-> N]

\* words.map((_, i) => (i === 0 ? "current" : "pending"))
initialStatuses == [i \in 0..(N - 1) |-> IF i = 0 THEN "current" ELSE "pending"]


(***************************************************************************)
(* useSpeechRecognition: the loop of recognition.onresult over the results *)
(* of one event.                                                           *)
(***************************************************************************)
Max2(a, b) == IF a > b THEN a ELSE b

\* finalTranscriptOf that takes the interim results too
RECURSIVE finalTranscriptOf_all(_)
finalTranscriptOf_all(results) ==
  IF results = <<>> THEN <<>>
  ELSE Head(results).transcript \o finalTranscriptOf_all(Tail(results))

\* the loop of lines 182-196, the final results: finalTranscript
RECURSIVE finalTranscriptOf(_)
finalTranscriptOf(results) ==
  IF results = <<>> THEN <<>>
  ELSE (IF Head(results).isFinal THEN Head(results).transcript ELSE <<>>)
       \o finalTranscriptOf(Tail(results))

\* undefined confidence counts as 1.0
confidenceValue(confidence) == IF confidence = Undefined THEN 100 ELSE confidence

RECURSIVE finalConfidenceOf(_)
finalConfidenceOf(results) ==
  IF results = <<>> THEN 0
  ELSE IF Head(results).isFinal
       THEN Max2(confidenceValue(Head(results).confidence),
                 finalConfidenceOf(Tail(results)))
       ELSE finalConfidenceOf(Tail(results))

\* a threshold that rejects nothing
lowConfidence_never(finalConfidence) == FALSE

\* the confidence threshold of line 217
lowConfidence(finalConfidence) == finalConfidence < 100 /\ finalConfidence < 50

\* the loop of lines 182-196, the interim results: interimResult
RECURSIVE interimResultOf(_)
interimResultOf(results) ==
  IF results = <<>> THEN <<>>
  ELSE (IF Head(results).isFinal THEN <<>> ELSE Head(results).transcript)
       \o interimResultOf(Tail(results))

\* the results of one onresult event: one result, or an interim result and a
\* final result in either order
Events(target) ==
  { <<r>> : r \in Results(target) }
  \cup LET interim == [ transcript |-> Misreading, isFinal |-> FALSE,
                        confidence |-> Undefined ]
           final   == [ transcript |-> spokenForm(target[1]), isFinal |-> TRUE,
                        confidence |-> Undefined ]
       IN { <<interim, final>>, <<final, interim>> }

\* the events the recognizer may deliver while the page shows target
ShortEvents == Events(ShortTarget)
LongEvents == Events(LongTarget)
eventsOf(target) == IF target = ShortTarget THEN ShortEvents ELSE LongEvents

\* SpeechRecognitionErrorEvent.error
CriticalErrors == { "not-allowed", "audio-capture", "service-not-allowed" }
OtherErrors == { "aborted", "network", "no-speech", "language-not-supported" }

(***************************************************************************)
(* Reading.processSpokenWords.                                             *)
(***************************************************************************)
\* every word a transcript of the model can hold
heard ==
  UNION { LET spokenWords == extractWords(lowerCase(trim(finalTranscriptOf(event))))
          IN { spokenWords[j] : j \in 1..Len(spokenWords) } :
          event \in ShortEvents \cup LongEvents }

\* wordsMatch of those words against the words of the story, computed once
matchTable ==
  [ spokenWord \in heard |->
      [ i \in 1..Len(storyWords) |-> wordsMatch(spokenWord, storyWords[i]) ] ]

\* lines 154-157: wordsMatch(spokenWord, words[indexToMark]), taken from
\* matchTable where it holds the pair
matchesExpectedWord(spokenWord, indexToMark) ==
  IF spokenWord \in DOMAIN matchTable
     /\ wordAt(indexToMark) = storyWords[indexToMark + 1]
  THEN matchTable[spokenWord][indexToMark + 1]
  ELSE wordsMatch(spokenWord, wordAt(indexToMark))

\* retryReset with the stale mark left in place
retryReset_never(prev, index) == prev

\* the updater of lines 138-145: an "incorrect" mark at the index becomes "current"
retryReset(prev, index) ==
  IF index \in DOMAIN prev /\ prev[index] = "incorrect"
  THEN [prev EXCEPT ![index] = "current"]
  ELSE prev

\* markCorrect without the move of "current" to the next word
markCorrect_noNext(prev, indexToMark) == [prev EXCEPT ![indexToMark] = "correct"]

\* the updater of lines 168-175
markCorrect(prev, indexToMark) ==
  [i \in DOMAIN prev |->
     IF i = indexToMark THEN "correct"
     ELSE IF i = indexToMark + 1 /\ indexToMark + 1 < N THEN "current"
     ELSE prev[i]]

\* markIncorrect that marks the word before the one that was expected
markIncorrect_previous(prev, indexToMark) ==
  IF indexToMark > 0
  THEN [prev EXCEPT ![indexToMark - 1] = "incorrect"]
  ELSE [prev EXCEPT ![indexToMark] = "incorrect"]

\* the updater of lines 192-196
markIncorrect(prev, indexToMark) == [prev EXCEPT ![indexToMark] = "incorrect"]

\* celebrate that looks at the index of the word just matched
celebrate_before(celebrations, localWordIndex) ==
  IF (localWordIndex - 1) % 5 = 0
  THEN Append(celebrations, localWordIndex) ELSE celebrations

\* the mini celebration of lines 179-186, after localWordIndex++: the values of
\* localWordIndex at which setShowCelebration(true) was called so far
celebrate(celebrations, localWordIndex) ==
  IF localWordIndex % 5 = 0
  THEN Append(celebrations, localWordIndex) ELSE celebrations

\* forEachCallback that skips a word it rejected: it advances on a mismatch too
forEachCallback_skipOnMiss(acc, spokenWord, idx) ==
  IF acc.localWordIndex >= N THEN acc
  ELSE LET indexToMark == acc.localWordIndex
       IN IF matchesExpectedWord(spokenWord, indexToMark)
          THEN [acc EXCEPT !.statuses = markCorrect(acc.statuses, indexToMark),
                           !.localWordIndex = acc.localWordIndex + 1,
                           !.celebrations = celebrate(acc.celebrations,
                                                      acc.localWordIndex + 1)]
          ELSE [acc EXCEPT !.statuses = markIncorrect(acc.statuses, indexToMark),
                           !.localWordIndex = acc.localWordIndex + 1,
                           !.firstMiss = IF acc.firstMiss = 0 THEN idx ELSE acc.firstMiss]

\* forEachCallback that counts the words spoken past the end of the text
forEachCallback_pastEnd(acc, spokenWord, idx) ==
  IF acc.localWordIndex >= N
  THEN [acc EXCEPT !.localWordIndex = acc.localWordIndex + 1]
  ELSE LET indexToMark == acc.localWordIndex
       IN IF matchesExpectedWord(spokenWord, indexToMark)
          THEN [acc EXCEPT !.statuses = markCorrect(acc.statuses, indexToMark),
                           !.localWordIndex = acc.localWordIndex + 1,
                           !.celebrations = celebrate(acc.celebrations,
                                                      acc.localWordIndex + 1)]
          ELSE [acc EXCEPT !.statuses = markIncorrect(acc.statuses, indexToMark),
                           !.firstMiss = IF acc.firstMiss = 0 THEN idx ELSE acc.firstMiss]

\* forEachCallback that leaves localWordIndex where it is after a match
forEachCallback_noAdvance(acc, spokenWord, idx) ==
  IF acc.localWordIndex >= N THEN acc
  ELSE LET indexToMark == acc.localWordIndex
       IN IF matchesExpectedWord(spokenWord, indexToMark)
          THEN [acc EXCEPT !.statuses = markCorrect(acc.statuses, indexToMark)]
          ELSE [acc EXCEPT !.statuses = markIncorrect(acc.statuses, indexToMark),
                           !.firstMiss = IF acc.firstMiss = 0 THEN idx ELSE acc.firstMiss]

\* one call of the forEach callback, lines 151-205.  acc holds localWordIndex,
\* the statuses after the updaters queued so far, the celebrations started so
\* far, and firstMiss, the position in spokenWords of the first word that was
\* marked incorrect (0: none yet).
\* The return of line 203 ends this call of the callback only.
forEachCallback(acc, spokenWord, idx) ==
  IF acc.localWordIndex >= N THEN acc
  ELSE LET indexToMark == acc.localWordIndex
       IN IF matchesExpectedWord(spokenWord, indexToMark)
          THEN [acc EXCEPT !.statuses = markCorrect(acc.statuses, indexToMark),
                           !.localWordIndex = acc.localWordIndex + 1,
                           !.celebrations = celebrate(acc.celebrations,
                                                      acc.localWordIndex + 1)]
          ELSE [acc EXCEPT !.statuses = markIncorrect(acc.statuses, indexToMark),
                           !.firstMiss = IF acc.firstMiss = 0 THEN idx ELSE acc.firstMiss]

\* forEach that stops after the first word
forEach_firstOnly(spokenWords, acc, idx) ==
  IF idx > Len(spokenWords) \/ idx > 1 THEN acc
  ELSE forEachCallback(acc, spokenWords[idx], idx)

\* Array.prototype.forEach over spokenWords from position idx on
RECURSIVE forEach(_, _, _)
forEach(spokenWords, acc, idx) ==
  IF idx > Len(spokenWords) THEN acc
  ELSE forEach(spokenWords, forEachCallback(acc, spokenWords[idx], idx), idx + 1)

\* lines 136-205: the retry reset, then the walk over spokenWords
alignWords(spokenWords, index, statuses) ==
  forEach(spokenWords,
          [localWordIndex |-> index,
           statuses |-> retryReset(statuses, index),
           celebrations |-> <<>>,
           firstMiss |-> 0],
          1)

\* processSpokenWords without the test of isListening
processSpokenWords_unguarded(transcript, index, statuses, listening) ==
  alignWords(extractWords(transcript), index, statuses)

\* processSpokenWords(transcript) called in a session at index with statuses:
\* the index and statuses it commits and the celebrations it starts
processSpokenWords(transcript, index, statuses, listening) ==
  IF ~listening
  THEN [localWordIndex |-> index, statuses |-> statuses,
        celebrations |-> <<>>, firstMiss |-> 0]
  ELSE alignWords(extractWords(transcript), index, statuses)


(***************************************************************************)
(* The browser's SpeechRecognition object (continuous = false).            *)
(*   idle      not started                                                 *)
(*   starting  start() accepted, no start event yet                        *)
(*   listening start event delivered, capturing audio                      *)
(*   stopping  stop() called: final results may still be delivered         *)
(*   ending    error delivered, only the end event remains                 *)
(* A session may deliver several final results before it ends (duplicated  *)
(* or overlapping results around restarts).                                *)
(***************************************************************************)
RecognitionStates == { "idle", "starting", "listening", "stopping", "ending" }

\* recognition.start(): throws InvalidStateError (caught by every caller) unless idle
recognitionStart(rec) == IF rec = "idle" THEN "starting" ELSE rec

\* recognition.stop()
recognitionStop(rec) == IF rec \in { "starting", "listening" } THEN "stopping" ELSE rec

\* recognition.abort()
recognitionAbort(rec) == IF rec = "idle" THEN rec ELSE "ending"

\* the quick restarts after which onend gives up, line 140
QuickRestartLimit == 5

\* the value of quickEnds where the sessions are not counted
NotCounted == 0 - 1

\* quickEnds when the user starts listening
newAttempt(count) == IF count = NotCounted THEN NotCounted ELSE 0

\* quickEnds when a session ends: one more if it had started, was not
\* stopped and ended within 1000 ms while shouldBeListeningRef held
sessionEnded(count, quick) ==
  IF count = NotCounted THEN NotCounted
  ELSE IF shouldBeListeningRef /\ quick /\ recognition = "listening"
  THEN Min2(count + 1, QuickRestartLimit + 1)
  ELSE 0

(***************************************************************************)
(* Handlers.  A handler runs to completion together with the render it     *)
(* causes and the effects of that render: React commits the queued state   *)
(* updates and refreshes onResultRef (lines 81-85) before the recognizer   *)
(* delivers its next event, so processSpokenWords reads the committed      *)
(* currentWordIndex and isListening.                                       *)
(***************************************************************************)
\* the handler that ran last: its name, the event it handled, the strings it
\* passed to onResult, the tokens it passed to the walk, firstMiss and the
\* celebrations of the walk, and the session it started from: the cursor, the
\* statuses, isListening and shouldBeListeningRef; afterRestart: handleRestart
\* has run and the user has not started listening since
lastResult(op, event, delivered, tokens, firstMiss, celebrations) ==
  [ op |-> op, event |-> event, delivered |-> delivered, tokens |-> tokens,
    firstMiss |-> firstMiss, celebrations |-> celebrations,
    index |-> currentWordIndex, statuses |-> wordStatuses, listening |-> isListening,
    desired |-> shouldBeListeningRef,
    afterRestart |-> (op = "restart" \/ (last.afterRestart /\ op # "micStart")) ]

\* a handler that passed nothing to onResult
lastCall(op, event, tokens, firstMiss, celebrations) ==
  lastResult(op, event, <<>>, tokens, firstMiss, celebrations)

lastOp(op, tokens, firstMiss) == lastCall(op, <<>>, tokens, firstMiss, <<>>)

\* the onResult of a render: processSpokenWords (its dependencies are
\* currentWordIndex, words and isListening) with the values of that render
closure(index, listening) == [ currentWordIndex |-> index, isListening |-> listening ]

\* the render without the auto-stop effect
Render_noAutoStop(index, statuses, listening, shouldBe, timer, restarts, rec) ==
  /\ words' = words
  /\ call' = call
  /\ mounted' = mounted
  /\ currentWordIndex' = index
  /\ wordStatuses' = statuses
  /\ isListening' = listening
  /\ shouldBeListeningRef' = shouldBe
  /\ restartTimer' = timer
  /\ consecutiveRestartsRef' = restarts
  /\ recognition' = rec
  /\ onResultRef' = closure(index, listening)

\* the render after a handler: the state it set, the effect of
\* useSpeechRecognition lines 81-85, which stores the onResult of this render in
\* onResultRef, and the auto-stop effect of Reading lines 268-272, which calls
\* stopListening when isComplete && isListening holds after a change of either
\* since the render before
Render(index, statuses, listening, shouldBe, timer, restarts, rec) ==
  LET autoStop == index >= N /\ listening
                  /\ (onResultRef.currentWordIndex < N \/ ~onResultRef.isListening)
  IN /\ words' = words
     /\ call' = call
     /\ mounted' = mounted
     /\ currentWordIndex' = index
     /\ wordStatuses' = statuses
     /\ isListening' = listening
     /\ shouldBeListeningRef' = IF autoStop THEN FALSE ELSE shouldBe
     /\ restartTimer' = timer
     /\ consecutiveRestartsRef' = restarts
     /\ recognition' = IF autoStop THEN recognitionStop(rec) ELSE rec
     /\ onResultRef' = closure(index, listening)

\* the state of a freshly mounted Reading page with the given target text
Mounted(target) ==
  /\ words = target
  /\ currentWordIndex = 0
  /\ wordStatuses = initialStatuses
  /\ isListening = FALSE
  /\ shouldBeListeningRef = FALSE
  /\ restartTimer = FALSE
  /\ consecutiveRestartsRef = 0
  /\ recognition = "idle"
  /\ interimTranscript = <<>>
  /\ showCelebration = FALSE
  /\ permissionDenied = FALSE
  /\ isSpeaking = FALSE
  /\ milestones = <<>>
  /\ mounted = TRUE
  /\ onResultRef = closure(0, FALSE)
  /\ last = [ op |-> "init", event |-> <<>>, delivered |-> <<>>, tokens |-> <<>>,
              firstMiss |-> 0, celebrations |-> <<>>,
              index |-> 0, statuses |-> initialStatuses, listening |-> FALSE,
              desired |-> FALSE, afterRestart |-> FALSE ]

\* the state of the page while the reader reads: the cursor at a word of the
\* target that is current or was marked incorrect, the words before it
\* correct, the recognizer listening
InProgress(target, cursor, mark) ==
  LET statuses == [ i \in 0..(Len(target) - 1) |->
                      IF i < cursor THEN "correct"
                      ELSE IF i = cursor THEN mark ELSE "pending" ]
  IN /\ words = target
     /\ currentWordIndex = cursor
     /\ wordStatuses = statuses
     /\ isListening = TRUE
     /\ shouldBeListeningRef = TRUE
     /\ restartTimer = FALSE
     /\ consecutiveRestartsRef = 0
     /\ recognition = "listening"
     /\ interimTranscript = <<>>
     /\ showCelebration = FALSE
     /\ permissionDenied = FALSE
     /\ isSpeaking = FALSE
     /\ milestones = [ k \in 1..(cursor \div 5) |-> 5 * k ]
     /\ mounted = TRUE
     /\ onResultRef = closure(cursor, TRUE)
     /\ last = [ op |-> "init", event |-> <<>>, delivered |-> <<>>, tokens |-> <<>>,
                 firstMiss |-> 0, celebrations |-> <<>>,
                 index |-> cursor, statuses |-> statuses, listening |-> TRUE,
                 desired |-> TRUE, afterRestart |-> FALSE ]

\* no call of a text-matching function is looked at
noCall == [ fn |-> "none", args |-> <<>>, result |-> "none" ]

Init == Mounted(ShortTarget) /\ call = noCall /\ quickEnds = NotCounted

\* handleMicToggle without the reset of the session
handleMicToggle_noReset ==
  /\ mounted
  /\ ~isComplete
  /\ IF isListening
     THEN /\ Render(currentWordIndex, wordStatuses, isListening, FALSE, restartTimer,
                    consecutiveRestartsRef, recognitionStop(recognition))
          /\ UNCHANGED << quickEnds, interimTranscript, showCelebration, permissionDenied,
                          isSpeaking, milestones >>
          /\ last' = lastOp("micStop", <<>>, 0)
     ELSE /\ Render(currentWordIndex, wordStatuses, isListening, TRUE, restartTimer,
                    consecutiveRestartsRef, recognitionStart(recognition))
          /\ interimTranscript' = <<>>
          /\ milestones' = milestones
          /\ quickEnds' = newAttempt(quickEnds)
          /\ UNCHANGED << showCelebration, permissionDenied, isSpeaking >>
          /\ last' = lastOp("micStart", <<>>, 0)

\* Reading.handleMicToggle; the mic button is rendered only while !isComplete
handleMicToggle ==
  /\ mounted
  /\ ~isComplete
  /\ IF isListening
     THEN \* stopListening()
          /\ Render(currentWordIndex, wordStatuses, isListening, FALSE, restartTimer,
                    consecutiveRestartsRef, recognitionStop(recognition))
          /\ UNCHANGED << quickEnds, interimTranscript, showCelebration, permissionDenied,
                          isSpeaking, milestones >>
          /\ last' = lastOp("micStop", <<>>, 0)
     ELSE \* reset, resetTranscript(), then startListening()
          /\ Render(0, initialStatuses, isListening, TRUE, restartTimer,
                    consecutiveRestartsRef, recognitionStart(recognition))
          /\ interimTranscript' = <<>>
          /\ milestones' = <<>>
          /\ quickEnds' = newAttempt(quickEnds)
          /\ UNCHANGED << showCelebration, permissionDenied, isSpeaking >>
          /\ last' = lastOp("micStart", <<>>, 0)

\* handleRestart that puts the cursor back and keeps the statuses
handleRestart_keepsStatuses ==
  /\ mounted
  /\ Render(0, wordStatuses, isListening, FALSE, restartTimer,
            consecutiveRestartsRef, recognitionStop(recognition))
  /\ interimTranscript' = <<>>
  /\ isSpeaking' = FALSE
  /\ milestones' = <<>>
  /\ UNCHANGED << quickEnds, showCelebration, permissionDenied >>
  /\ last' = lastOp("restart", <<>>, 0)

\* Reading.handleRestart: stopListening(), stopSpeaking(), reset, resetTranscript()
handleRestart ==
  /\ mounted
  /\ Render(0, initialStatuses, isListening, FALSE, restartTimer,
            consecutiveRestartsRef, recognitionStop(recognition))
  /\ interimTranscript' = <<>>
  /\ isSpeaking' = FALSE
  /\ milestones' = <<>>
  /\ UNCHANGED << quickEnds, showCelebration, permissionDenied >>
  /\ last' = lastOp("restart", <<>>, 0)

\* recognition.onstart
onstart ==
  /\ recognition = "starting"
  /\ Render(currentWordIndex, wordStatuses, TRUE, shouldBeListeningRef, restartTimer,
            0, "listening")
  /\ UNCHANGED << quickEnds, interimTranscript, showCelebration, permissionDenied,
                  isSpeaking, milestones >>
  /\ last' = lastOp("onstart", <<>>, 0)

\* onend that schedules no restart
onend_noRestart ==
  /\ recognition # "idle"
  /\ \E quick \in BOOLEAN :
       /\ (shouldBeListeningRef /\ quick) => consecutiveRestartsRef < MaxRestarts
       /\ LET restarts == IF ~shouldBeListeningRef THEN consecutiveRestartsRef
                          ELSE IF quick THEN consecutiveRestartsRef + 1 ELSE 0
              tooMany == shouldBeListeningRef /\ quick /\ restarts > QuickRestartLimit
          IN /\ Render(currentWordIndex, wordStatuses, FALSE,
                       shouldBeListeningRef /\ ~tooMany, restartTimer,
                       restarts, "idle")
             /\ quickEnds' = sessionEnded(quickEnds, quick)
             /\ UNCHANGED << interimTranscript, showCelebration, permissionDenied,
                             isSpeaking, milestones >>
             /\ last' = lastOp(IF tooMany THEN "tooManyRestarts" ELSE "onend", <<>>, 0)

\* recognition.onend; quick: the session ended less than 1000 ms after it started
onend ==
  /\ recognition # "idle"
  /\ \E quick \in BOOLEAN :
       /\ (shouldBeListeningRef /\ quick) => consecutiveRestartsRef < MaxRestarts
       /\ LET restarts == IF ~shouldBeListeningRef THEN consecutiveRestartsRef
                          ELSE IF quick THEN consecutiveRestartsRef + 1 ELSE 0
              tooMany == shouldBeListeningRef /\ quick /\ restarts > QuickRestartLimit
          IN /\ Render(currentWordIndex, wordStatuses, FALSE,
                       shouldBeListeningRef /\ ~tooMany,
                       IF shouldBeListeningRef /\ ~tooMany THEN TRUE ELSE restartTimer,
                       restarts, "idle")
             /\ quickEnds' = sessionEnded(quickEnds, quick)
             /\ UNCHANGED << interimTranscript, showCelebration, permissionDenied,
                             isSpeaking, milestones >>
             /\ last' = lastOp(IF tooMany THEN "tooManyRestarts" ELSE "onend", <<>>, 0)

\* the state a handler set where React has not rendered yet: the updates are
\* queued (the updaters of wordStatuses on top of those queued before), the
\* refs are written, and onResultRef still holds the onResult of the render
\* before
Queued(index, statuses, timer) ==
  /\ currentWordIndex' = index
  /\ wordStatuses' = statuses
  /\ restartTimer' = timer
  /\ UNCHANGED << words, onResultRef, call, mounted, isListening, shouldBeListeningRef,
                  consecutiveRestartsRef, recognition >>

\* recognition.onresult with the results of event; rendered: React renders and
\* runs its effects before the next event is delivered
onresultEvent(event, rendered) ==
       LET finalTranscript == finalTranscriptOf(event)
           finalConfidence == finalConfidenceOf(event)
       IN /\ interimTranscript' = interimResultOf(event)
          /\ UNCHANGED << quickEnds, permissionDenied, isSpeaking >>
          /\ IF finalTranscript = <<>>
             THEN \* interim results only
                  /\ UNCHANGED << words, onResultRef, call, mounted, currentWordIndex, wordStatuses, isListening,
                                  shouldBeListeningRef, restartTimer,
                                  consecutiveRestartsRef, recognition,
                                  showCelebration, milestones >>
                  /\ last' = lastCall("interim", event, <<>>, 0, <<>>)
             ELSE IF lowConfidence(finalConfidence)
             THEN /\ UNCHANGED << words, onResultRef, call, mounted, currentWordIndex, wordStatuses, isListening,
                                  shouldBeListeningRef, restartTimer,
                                  consecutiveRestartsRef, recognition,
                                  showCelebration, milestones >>
                  /\ last' = lastCall("rejected", event, <<>>, 0, <<>>)
             ELSE \* onResultRef.current(wordToProcess), then the restart timeout
                  \E wordToProcess \in { lowerCase(trim(finalTranscript)) } :
                  \E r \in { processSpokenWords(wordToProcess,
                                                onResultRef.currentWordIndex,
                                                wordStatuses,
                                                onResultRef.isListening) } :
                  \E index \in { IF r.localWordIndex # onResultRef.currentWordIndex
                                  THEN r.localWordIndex ELSE currentWordIndex } :
                    /\ IF rendered
                       THEN Render(index, r.statuses, isListening, shouldBeListeningRef,
                                   TRUE, consecutiveRestartsRef, recognition)
                       ELSE Queued(index, r.statuses, TRUE)
                    /\ showCelebration' = (showCelebration \/ r.celebrations # <<>>)
                    /\ milestones' = milestones \o r.celebrations
                    /\ last' = lastResult(IF onResultRef.isListening
                                          THEN "submit" ELSE "ignored",
                                          event, <<wordToProcess>>,
                                          extractWords(wordToProcess),
                                          r.firstMiss, r.celebrations)

\* recognition.onresult with any event the recognizer may deliver
onresultHandler(rendered) ==
  /\ recognition \in { "listening", "stopping" }
  /\ \E event \in eventsOf(words) : onresultEvent(event, rendered)

\* recognition.onresult, followed by the render
onresult == onresultHandler(TRUE)

\* recognition.onresult with one final result that holds the expected word
\* and nothing else, as it is written in the text or as the recognizer writes
\* it, and a confidence that is not low
onresultExpected ==
  /\ recognition = "listening"
  /\ ~isComplete
  /\ \E transcript \in { wordAt(currentWordIndex), spokenForm(wordAt(currentWordIndex)) } :
     \E confidence \in { Undefined, 90 } :
       onresultEvent(<< [ transcript |-> transcript, isFinal |-> TRUE,
                          confidence |-> confidence ] >>, TRUE)

\* recognition.onend of a session that has delivered its start event
onendStarted ==
  /\ recognition \in { "listening", "stopping", "ending" }
  /\ onend

\* recognition.onresult where the next event is delivered before the render
onresultBeforeRender == onresultHandler(FALSE)

\* React renders the page with the queued updates and runs the effects
render ==
  /\ mounted
  /\ onResultRef # closure(currentWordIndex, isListening)
  /\ Render(currentWordIndex, wordStatuses, isListening, shouldBeListeningRef,
            restartTimer, consecutiveRestartsRef, recognition)
  /\ UNCHANGED << quickEnds, interimTranscript, showCelebration, permissionDenied,
                  isSpeaking, milestones >>
  /\ last' = lastOp("render", <<>>, 0)

\* onerrorCritical that leaves shouldBeListeningRef and the restart timeout
onerrorCritical_keepsFlag ==
  /\ recognition \in { "starting", "listening", "stopping" }
  /\ \E error \in CriticalErrors :
       /\ Render(currentWordIndex, wordStatuses, FALSE, shouldBeListeningRef,
                 restartTimer, consecutiveRestartsRef, "ending")
       /\ permissionDenied' = (permissionDenied \/ error = "not-allowed")
       /\ UNCHANGED << quickEnds, interimTranscript, showCelebration, isSpeaking,
                       milestones >>
       /\ last' = lastOp(IF error = "not-allowed" THEN "permissionDenied" ELSE "onerror",
                         <<>>, 0)

\* onerrorCritical that also starts the session over
onerrorCritical_resets ==
  /\ recognition \in { "starting", "listening", "stopping" }
  /\ \E error \in CriticalErrors :
       /\ Render(0, initialStatuses, FALSE, FALSE, FALSE,
                 consecutiveRestartsRef, "ending")
       /\ permissionDenied' = (permissionDenied \/ error = "not-allowed")
       /\ UNCHANGED << quickEnds, interimTranscript, showCelebration, isSpeaking,
                       milestones >>
       /\ last' = lastOp(IF error = "not-allowed" THEN "permissionDenied" ELSE "onerror",
                         <<>>, 0)

\* recognition.onerror with a critical error; the end event follows
onerrorCritical ==
  /\ recognition \in { "starting", "listening", "stopping" }
  /\ \E error \in CriticalErrors :
       /\ Render(currentWordIndex, wordStatuses, FALSE, FALSE, FALSE,
                 consecutiveRestartsRef, "ending")
       /\ permissionDenied' = (permissionDenied \/ error = "not-allowed")
       /\ UNCHANGED << quickEnds, interimTranscript, showCelebration, isSpeaking,
                       milestones >>
       /\ last' = lastOp(IF error = "not-allowed" THEN "permissionDenied" ELSE "onerror",
                         <<>>, 0)

\* recognition.onerror with any other error: nothing but logging and onError,
\* which logs; the end event follows
onerrorOther ==
  /\ recognition \in { "starting", "listening", "stopping" }
  /\ \E error \in OtherErrors :
       /\ Render(currentWordIndex, wordStatuses, isListening, shouldBeListeningRef,
                 restartTimer, consecutiveRestartsRef, "ending")
       /\ UNCHANGED << quickEnds, interimTranscript, showCelebration, permissionDenied,
                       isSpeaking, milestones >>
       /\ last' = lastOp("onerrorOther", <<>>, 0)

\* the timeout without its test of shouldBeListeningRef
restartTimeout_unguarded ==
  /\ restartTimer
  /\ Render(currentWordIndex, wordStatuses, isListening, shouldBeListeningRef, FALSE,
            consecutiveRestartsRef, recognitionStart(recognition))
  /\ UNCHANGED << quickEnds, interimTranscript, showCelebration, permissionDenied,
                  isSpeaking, milestones >>
  /\ last' = lastOp("restartTimeout", <<>>, 0)

\* the timeout that starts the session over when it starts the recognizer
restartTimeout_resets ==
  /\ restartTimer
  /\ Render(0, initialStatuses, isListening, shouldBeListeningRef, FALSE,
            consecutiveRestartsRef,
            IF shouldBeListeningRef THEN recognitionStart(recognition) ELSE recognition)
  /\ UNCHANGED << quickEnds, interimTranscript, showCelebration, permissionDenied,
                  isSpeaking, milestones >>
  /\ last' = lastOp("restartTimeout", <<>>, 0)

\* the timeout set by onend (lines 152-163) or onresult (lines 238-251) fires
restartTimeout ==
  /\ restartTimer
  /\ Render(currentWordIndex, wordStatuses, isListening, shouldBeListeningRef, FALSE,
            consecutiveRestartsRef,
            IF shouldBeListeningRef THEN recognitionStart(recognition) ELSE recognition)
  /\ UNCHANGED << quickEnds, interimTranscript, showCelebration, permissionDenied,
                  isSpeaking, milestones >>
  /\ last' = lastOp("restartTimeout", <<>>, 0)

\* the timeout of lines 183-185 fires: setShowCelebration(false)
celebrationTimeout ==
  /\ mounted
  /\ showCelebration
  /\ Render(currentWordIndex, wordStatuses, isListening, shouldBeListeningRef,
            restartTimer, consecutiveRestartsRef, recognition)
  /\ showCelebration' = FALSE
  /\ UNCHANGED << quickEnds, interimTranscript, permissionDenied, isSpeaking,
                  milestones >>
  /\ last' = lastOp("celebrationTimeout", <<>>, 0)

\* Reading.handleSpeakerToggle; the speaker button is rendered only while
\* !isComplete.  speakSentence queues an utterance; isSpeaking follows its events.
handleSpeakerToggle ==
  /\ mounted
  /\ ~isComplete
  /\ Render(currentWordIndex, wordStatuses, isListening, shouldBeListeningRef,
            restartTimer, consecutiveRestartsRef, recognition)
  /\ isSpeaking' = FALSE
  /\ UNCHANGED << quickEnds, interimTranscript, showCelebration, permissionDenied,
                  milestones >>
  /\ last' = lastOp(IF isSpeaking THEN "stopSpeaking" ELSE "speakSentence", <<>>, 0)

\* Reading.handleWordClick(index): speakWord(words[index]) queues an utterance
handleWordClick ==
  /\ mounted
  /\ \E index \in 0..(N - 1) :
       /\ Render(currentWordIndex, wordStatuses, isListening, shouldBeListeningRef,
                 restartTimer, consecutiveRestartsRef, recognition)
       /\ UNCHANGED << quickEnds, interimTranscript, showCelebration, permissionDenied,
                       isSpeaking, milestones >>
       /\ last' = lastOp("speakWord", <<>>, 0)

\* utterance.onstart of an utterance queued by speak
utteranceOnstart ==
  /\ ~isSpeaking
  /\ Render(currentWordIndex, wordStatuses, isListening, shouldBeListeningRef,
            restartTimer, consecutiveRestartsRef, recognition)
  /\ isSpeaking' = TRUE
  /\ UNCHANGED << quickEnds, interimTranscript, showCelebration, permissionDenied,
                  milestones >>
  /\ last' = lastOp("utteranceOnstart", <<>>, 0)

\* utterance.onend or utterance.onerror
utteranceOnend ==
  /\ isSpeaking
  /\ Render(currentWordIndex, wordStatuses, isListening, shouldBeListeningRef,
            restartTimer, consecutiveRestartsRef, recognition)
  /\ isSpeaking' = FALSE
  /\ UNCHANGED << quickEnds, interimTranscript, showCelebration, permissionDenied,
                  milestones >>
  /\ last' = lastOp("utteranceOnend", <<>>, 0)

\* the page is left: the cleanup of useSpeechRecognition (lines 289-300) and
\* that of Reading (lines 259-265); safariRestartTimeoutRef is not cleared
unmount ==
  /\ mounted
  /\ mounted' = FALSE
  /\ shouldBeListeningRef' = FALSE
  /\ recognition' = recognitionAbort(recognition)
  /\ isSpeaking' = FALSE
  /\ showCelebration' = FALSE
  /\ UNCHANGED << words, onResultRef, call, currentWordIndex, wordStatuses, isListening,
                  restartTimer, consecutiveRestartsRef, interimTranscript,
                  permissionDenied, milestones, quickEnds >>
  /\ last' = lastOp("unmount", <<>>, 0)

Next ==
  \/ handleMicToggle
  \/ handleRestart
  \/ onstart
  \/ onend
  \/ onresult
  \/ onerrorCritical
  \/ onerrorOther
  \/ restartTimeout
  \/ handleSpeakerToggle
  \/ handleWordClick
  \/ utteranceOnstart
  \/ utteranceOnend

Spec == Init /\ [][Next]_vars

\* the same page mounted with the longer target text, where the celebration
\* and its timeout happen
InitMilestone == Mounted(LongTarget) /\ call = noCall /\ quickEnds = NotCounted

NextMilestone ==
  \/ handleMicToggle
  \/ onstart
  \/ onend
  \/ onresult
  \/ restartTimeout
  \/ celebrationTimeout

SpecMilestone == InitMilestone /\ [][NextMilestone]_vars

\* the page and the recognizer without the speech synthesis, until the page
\* is left; the quick sessions in a row are counted
InitRecognition == Mounted(ShortTarget) /\ call = noCall /\ quickEnds = 0

NextRecognition ==
  \/ handleMicToggle
  \/ onstart
  \/ onend
  \/ onresult
  \/ onerrorCritical
  \/ onerrorOther
  \/ restartTimeout
  \/ unmount

SpecRecognition == InitRecognition /\ [][NextRecognition]_vars

\* a timeout that was set and not cleared fires
SpecRecognitionLive == SpecRecognition /\ WF_vars(restartTimeout)

\* the page and the recognizer where a result may be delivered before React
\* has rendered the updates of the result before it
NextQueued ==
  \/ handleMicToggle
  \/ onstart
  \/ onend
  \/ onresultBeforeRender
  \/ render
  \/ restartTimeout

SpecQueued == Init /\ [][NextQueued]_vars

\* the reader reads on from any word of the longer target: every result is the
\* expected word, and the recognizer's sessions end and are restarted
InitReading ==
  /\ \E cursor \in 0..(MilestoneWords - 1) : \E mark \in { "current", "incorrect" } :
       InProgress(LongTarget, cursor, mark)
  /\ call = noCall
  /\ quickEnds = NotCounted

NextReading ==
  \/ onresultExpected
  \/ onstart
  \/ onendStarted
  \/ restartTimeout

SpecReading == InitReading /\ [][NextReading]_vars

\* the reader keeps on: a result with the expected word is delivered again and
\* again while the recognizer listens; a timeout that was set fires, and a
\* recognizer that was started delivers its start event
SpecReadingLive ==
  /\ SpecReading
  /\ SF_vars(onresultExpected)
  /\ WF_vars(onstart)
  /\ WF_vars(restartTimeout)

(***************************************************************************)
(* The text-matching functions on their own: two strings are given, and a  *)
(* function is called with them.                                           *)
(***************************************************************************)
\* the strings of the letters a and b of a length up to n
RECURSIVE stringsUpTo(_)
stringsUpTo(n) ==
  IF n = 0 THEN { <<>> }
  ELSE stringsUpTo(n - 1)
       \cup { Append(s, c) : s \in { t \in stringsUpTo(n - 1) : Len(t) = n - 1 },
                             c \in { "a", "b" } }

\* the arguments: those strings, and some with a capital, an accent,
\* punctuation or whitespace around them
MatchInputs ==
  stringsUpTo(MaxLen)
  \cup { <<"Á","b">>, <<"A","b","b","!">>, <<" ","a"," ">>, <<"!"," ","É",".">> }

InitMatch ==
  /\ Mounted(ShortTarget)
  /\ quickEnds = NotCounted
  /\ call \in { [ fn |-> "none", args |-> <<a, b>>, result |-> "none" ] :
                  a \in MatchInputs, b \in MatchInputs }

\* wordsMatch(spoken, expected) with the two strings
wordsMatchCall ==
  /\ call.fn = "none"
  /\ call' = [ fn |-> "wordsMatch", args |-> call.args,
               result |-> wordsMatch(call.args[1], call.args[2]) ]
  /\ UNCHANGED << words, onResultRef, currentWordIndex, wordStatuses, isListening,
                  shouldBeListeningRef, restartTimer, consecutiveRestartsRef,
                  recognition, interimTranscript, showCelebration,
                  permissionDenied, isSpeaking, milestones, mounted, quickEnds,
                  last >>

\* the first wordsMatch of the source with the two strings
wordsMatchEarlierCall ==
  /\ call.fn = "none"
  /\ call' = [ fn |-> "wordsMatchEarlier", args |-> call.args,
               result |-> wordsMatchEarlier(call.args[1], call.args[2]) ]
  /\ UNCHANGED << words, onResultRef, currentWordIndex, wordStatuses, isListening,
                  shouldBeListeningRef, restartTimer, consecutiveRestartsRef,
                  recognition, interimTranscript, showCelebration,
                  permissionDenied, isSpeaking, milestones, mounted, quickEnds,
                  last >>

\* normalizeText(text) with the first string
normalizeTextCall ==
  /\ call.fn = "none"
  /\ call' = [ fn |-> "normalizeText", args |-> call.args,
               result |-> normalizeText(call.args[1]) ]
  /\ UNCHANGED << words, onResultRef, currentWordIndex, wordStatuses, isListening,
                  shouldBeListeningRef, restartTimer, consecutiveRestartsRef,
                  recognition, interimTranscript, showCelebration,
                  permissionDenied, isSpeaking, milestones, mounted, quickEnds,
                  last >>

\* levenshteinDistance(str1, str2) with the two strings
levenshteinDistanceCall ==
  /\ call.fn = "none"
  /\ call' = [ fn |-> "levenshteinDistance", args |-> call.args,
               result |-> levenshteinDistance(call.args[1], call.args[2]) ]
  /\ UNCHANGED << words, onResultRef, currentWordIndex, wordStatuses, isListening,
                  shouldBeListeningRef, restartTimer, consecutiveRestartsRef,
                  recognition, interimTranscript, showCelebration,
                  permissionDenied, isSpeaking, milestones, mounted, quickEnds,
                  last >>

\* calculateSimilarity(str1, str2) with the two strings
calculateSimilarityCall ==
  /\ call.fn = "none"
  /\ call' = [ fn |-> "calculateSimilarity", args |-> call.args,
               result |-> calculateSimilarity(call.args[1], call.args[2]) ]
  /\ UNCHANGED << words, onResultRef, currentWordIndex, wordStatuses, isListening,
                  shouldBeListeningRef, restartTimer, consecutiveRestartsRef,
                  recognition, interimTranscript, showCelebration,
                  permissionDenied, isSpeaking, milestones, mounted, quickEnds,
                  last >>

NextMatch ==
  \/ wordsMatchCall
  \/ wordsMatchEarlierCall
  \/ normalizeTextCall
  \/ levenshteinDistanceCall
  \/ calculateSimilarityCall

SpecMatch == InitMatch /\ [][NextMatch]_vars

TypeOK ==
  /\ words \in Targets
  /\ currentWordIndex \in 0..N
  /\ wordStatuses \in [0..(N - 1) -> WordStatus]
  /\ isListening \in BOOLEAN
  /\ shouldBeListeningRef \in BOOLEAN
  /\ restartTimer \in BOOLEAN
  /\ consecutiveRestartsRef \in 0..MaxRestarts
  /\ recognition \in RecognitionStates
  /\ showCelebration \in BOOLEAN
  /\ permissionDenied \in BOOLEAN
  /\ isSpeaking \in BOOLEAN
  /\ mounted \in BOOLEAN
  /\ quickEnds \in { NotCounted } \cup 0..(QuickRestartLimit + 1)
  /\ onResultRef \in [ currentWordIndex : 0..N, isListening : BOOLEAN ]


(***************************************************************************)
(* Properties of the reading session.  A "submit" is a call of             *)
(* processSpokenWords that passed its isListening guard; last holds the    *)
(* tokens it extracted and the session it started from.                    *)
(***************************************************************************)
submitted == last.op = "submit"

currentIndices == { i \in DOMAIN wordStatuses : wordStatuses[i] = "current" }

\* C1: one rejection per submission.  When a token of a submit is rejected, the
\* session ends up as if the hypothesis had ended with that token: no later
\* token changes a status entry or advances the cursor.
C1_OneRejectionPerSubmission ==
  (submitted /\ last.firstMiss # 0) =>
     LET upToMiss == alignWords(SubSeq(last.tokens, 1, last.firstMiss),
                                last.index, last.statuses)
     IN /\ currentWordIndex = upToMiss.localWordIndex
        /\ wordStatuses = upToMiss.statuses

C3_CursorCurrentOrIncorrect ==
  currentWordIndex < N => wordStatuses[currentWordIndex] \in { "current", "incorrect" }

\* a submit advanced the cursor and then rejected a token at the new cursor
C3_Witness ==
  /\ submitted
  /\ currentWordIndex > last.index
  /\ currentWordIndex < N
  /\ wordStatuses[currentWordIndex] = "incorrect"

C5_CursorWithinBounds ==
  /\ currentWordIndex \in 0..N
  /\ 0 <= progress.num /\ progress.num <= 100 * progress.den
  /\ isComplete <=> currentWordIndex = N

\* a submit reached the end of the text with tokens to spare
C5_Witness ==
  /\ submitted
  /\ last.index < N
  /\ last.index + Len(last.tokens) > N
  /\ currentWordIndex = N

expectedPositions == 1..Min2(Len(last.tokens), N - last.index)

passedIndices == last.index..(currentWordIndex - 1)

\* C11: the cursor advances only on accepted matches.  When the cursor has
\* moved, the handler was a submit, and each word i it passed was matched by a
\* token of that submit while i was the working cursor: the tokens that
\* matched come in the order of the words, and each is the first token after
\* its predecessor that matches its word.  A word becomes correct only as one
\* of the words passed.  No other handler increases the cursor.
C11_AdvanceOnlyOnMatch ==
  /\ ~submitted => currentWordIndex <= last.index
  /\ submitted =>
       /\ currentWordIndex >= last.index
       /\ \E at \in [passedIndices -> 1..Len(last.tokens)] :
            \A i \in passedIndices :
               /\ wordsMatch(last.tokens[at[i]], wordAt(i))
               /\ \A j \in (IF i = last.index THEN 1 ELSE at[i - 1] + 1)..(at[i] - 1) :
                    ~wordsMatch(last.tokens[j], wordAt(i))
  /\ \A i \in DOMAIN wordStatuses :
       (wordStatuses[i] = "correct" /\ last.statuses[i] # "correct") =>
          submitted /\ i \in passedIndices

\* a submit moved the cursor past two words, each matched by a token
C11_Witness ==
  /\ submitted
  /\ currentWordIndex = last.index + 2
  /\ \A i \in passedIndices : wordStatuses[i] = "correct"

\* the positive multiples of 5 above lo and up to hi, in ascending order
fifths(lo, hi) ==
  LET multiples == { c \in (lo + 1)..hi : c % 5 = 0 }
  IN [ k \in 1..Cardinality(multiples) |->
         CHOOSE c \in multiples : Cardinality({ d \in multiples : d < c }) = k - 1 ]

\* C12: the milestone is signalled exactly when a successful match makes the
\* working cursor a positive multiple of 5, once for each such match: the
\* celebrations a handler started are the multiples of 5 its cursor reached
\* (none for a handler that matched nothing), showCelebration is set after
\* any, and since the last reset they are the multiples of 5 up to the cursor.
\* In a 12-word target read to the end they are the 5th and the 10th match.
C12_MilestoneEveryFifthMatch ==
  /\ last.celebrations = fifths(last.index, currentWordIndex)
  /\ last.celebrations # <<>> => submitted /\ showCelebration
  /\ milestones = fifths(0, currentWordIndex)
  /\ (isComplete /\ N = 12) => milestones = <<5, 10>>

\* the tenth match of a reading was celebrated, after the fifth
C12_Witness ==
  /\ submitted
  /\ last.index < 10
  /\ currentWordIndex >= 10
  /\ last.celebrations # <<>>
  /\ milestones = <<5, 10>>

\* the session of a target that nothing was read of yet
freshSession ==
  /\ currentWordIndex = 0
  /\ wordStatuses = [ i \in 0..(N - 1) |-> IF i = 0 THEN "current" ELSE "pending" ]

\* C13: reset restores the initial state.  After handleRestart, and after the
\* reset of handleMicToggle, the cursor is 0 and the statuses are current at
\* index 0 and pending elsewhere, whatever the session was before.
C13_ResetRestoresInitial ==
  last.op \in { "restart", "micStart" } => N >= 1 /\ freshSession

\* handleRestart ran in a complete session
C13_Witness ==
  /\ last.op = "restart"
  /\ last.index = N
  /\ \A i \in DOMAIN last.statuses : last.statuses[i] = "correct"

\* C14: every start of listening by the user resets the session before
\* recognition starts.  Right after handleMicToggle was called while not
\* listening, the session is fresh, the hook wants to listen, and no
\* recognition session is delivering results to it yet.
C14_UserStartResets ==
  last.op = "micStart" =>
     /\ ~last.listening
     /\ freshSession
     /\ shouldBeListeningRef
     /\ ~isListening
     /\ recognition # "listening"

\* the mic button started listening in a session that had progress
C14_Witness ==
  /\ last.op = "micStart"
  /\ last.index > 0
  /\ recognition = "starting"

\* the last handler was recognition.onresult
resultDelivered == last.op \in { "interim", "rejected", "submit", "ignored" }

isFinalResult(result) == result.isFinal
isInterimResult(result) == ~result.isFinal

\* the transcripts of some results, one after the other
RECURSIVE transcriptsOf(_)
transcriptsOf(results) ==
  IF results = <<>> THEN <<>>
  ELSE Head(results).transcript \o transcriptsOf(Tail(results))

\* C15: only finalized results reach submit.  When onResult was called, the
\* event held a final result and the words passed on are those of its final
\* results alone; an event of interim results only sets the interim display
\* to their text, calls nothing and leaves the session as it was.
C15_OnlyFinalResultsSubmitted ==
  /\ last.op \in { "submit", "ignored" } =>
       /\ SelectSeq(last.event, isFinalResult) # <<>>
       /\ last.tokens = extractWords(transcriptsOf(SelectSeq(last.event, isFinalResult)))
  /\ (resultDelivered /\ SelectSeq(last.event, isFinalResult) = <<>>) =>
       /\ last.op = "interim"
       /\ interimTranscript = transcriptsOf(last.event)
       /\ currentWordIndex = last.index
       /\ wordStatuses = last.statuses
  /\ resultDelivered =>
       interimTranscript = transcriptsOf(SelectSeq(last.event, isInterimResult))

\* a submit of an event that held an interim result next to the final one
C15_Witness ==
  /\ submitted
  /\ SelectSeq(last.event, isInterimResult) # <<>>
  /\ last.tokens = <<spokenForm(wordAt(0))>>
  /\ currentWordIndex = last.index + 1

\* the handlers that change nothing of the session according to C16: the
\* playback actions, the mic button stopping the listening, and the
\* recognizer's errors
sessionBystanders ==
  { "speakWord", "speakSentence", "stopSpeaking", "utteranceOnstart", "utteranceOnend",
    "micStop", "onerror", "onerrorOther", "permissionDenied" }

\* C16: only submit and reset mutate the session.  After a playback action, a
\* mic button press that stops the listening, or an error or permission-denied
\* event of the recognizer, the cursor and the statuses are what they were;
\* the same holds after every handler but a submit, handleRestart and the
\* mic button press that starts the listening.
C16_OnlySubmitAndResetMutate ==
  /\ last.op \in sessionBystanders =>
       currentWordIndex = last.index /\ wordStatuses = last.statuses
  /\ (currentWordIndex # last.index \/ wordStatuses # last.statuses) =>
       last.op \in { "submit", "restart", "micStart" }

\* the recognizer reported the denied permission to a session that had a
\* word read and a word marked incorrect
C16_Witness ==
  /\ last.op = "permissionDenied"
  /\ permissionDenied
  /\ last.index > 0
  /\ last.statuses[last.index] = "incorrect"

(***************************************************************************)
(* The word matcher and the similarity scorer, called on bounded strings   *)
(***************************************************************************)
\* the call that was made is one of the tiered wordsMatch
matched == call.fn = "wordsMatch"

normalizedSpokenOf == normalizeText(call.args[1])

normalizedExpectedOf == normalizeText(call.args[2])

lengthDiffOf == Abs(Len(normalizedSpokenOf) - Len(normalizedExpectedOf))

\* the tiers as the claim words them; 0.6 is 3/5 and 0.8 is 4/5
tieredReference(normSpoken, normExpected) ==
  LET lengthDiff == Abs(Len(normSpoken) - Len(normExpected))
      similarity == calculateSimilarity(normSpoken, normExpected)
  IN \/ normSpoken = normExpected
     \/ /\ normSpoken # normExpected
        /\ lengthDiff <= 2
        /\ Len(normExpected) <= 2 => 5 * similarity.num >= 3 * similarity.den
        /\ Len(normExpected) > 2  => 5 * similarity.num >= 4 * similarity.den

matchedAny == call.fn \in { "wordsMatch", "wordsMatchEarlier" }

\* the normalized tokens differ, and their lengths differ by more than 2
gated == normalizedSpokenOf # normalizedExpectedOf /\ lengthDiffOf > 2

\* C18: tokens whose normalized forms differ and whose normalized lengths
\* differ by more than 2 do not match, also when the spoken token contains
\* the expected word. The source has wordsMatch twice, the tiered one and
\* the earlier one with the test for a contained word, and this is stated of
\* both.
C18_LengthGate ==
  (matchedAny /\ gated) => call.result = FALSE

\* C18, for the tiered wordsMatch alone
C18_LengthGateTiered ==
  (matched /\ gated) => call.result = FALSE

\* the tiered wordsMatch refuses a spoken token that contains the expected word
C18_Witness ==
  /\ matched
  /\ gated
  /\ normalizedExpectedOf # <<>>
  /\ includes(normalizedSpokenOf, normalizedExpectedOf)
  /\ call.result = FALSE
\* a matches b and b does not match a, with one similarity for both
\* directions and the lengths of the normalized tokens on the two sides of 2
asymmetric(a, b) ==
  /\ wordsMatch(a, b)
  /\ ~wordsMatch(b, a)
  /\ Len(normalizeText(b)) <= 2
  /\ Len(normalizeText(a)) > 2
  /\ calculateSimilarity(normalizeText(a), normalizeText(b))
       = calculateSimilarity(normalizeText(b), normalizeText(a))

asymmetricPairs ==
  { pair \in MatchInputs \X MatchInputs : asymmetric(pair[1], pair[2]) }

\* C19: wordsMatch is not symmetric: there are tokens a and b with
\* wordsMatch(a, b) true and wordsMatch(b, a) false, since the threshold is
\* chosen by the length of the expected token, the second argument, alone;
\* a call with such a pair matches, the call with the pair exchanged does not.
C19_MatchesNotSymmetric ==
  /\ asymmetricPairs # {}
  /\ (matched /\ call.args \in asymmetricPairs) => call.result = TRUE
  /\ (matched /\ <<call.args[2], call.args[1]>> \in asymmetricPairs)
        => call.result = FALSE

\* a call that matched, and that does not match with its arguments exchanged
C19_Witness ==
  /\ matched
  /\ call.result = TRUE
  /\ wordsMatch(call.args[2], call.args[1]) = FALSE
  /\ call.args \in asymmetricPairs

\* the call that was made is one of calculateSimilarity
scored == call.fn = "calculateSimilarity"

\* two similarities are the same quotient
sameQuotient(p, q) == p.num * q.den = q.num * p.den

\* C20: calculateSimilarity(a, b) is calculateSimilarity(b, a) for all
\* strings a and b, and calculateSimilarity(a, a) is 1 for a non-empty a.
C20_SimilaritySymmetric ==
  scored =>
    /\ call.result.den > 0
    /\ sameQuotient(call.result, calculateSimilarity(call.args[2], call.args[1]))
    /\ (call.args[1] = call.args[2] /\ call.args[1] # <<>>)
          => call.result.num = call.result.den

\* the similarity of two different strings of different lengths, neither
\* empty, none of 0 or 1
C20_Witness ==
  /\ scored
  /\ Len(call.args[1]) < Len(call.args[2])
  /\ call.args[1] # <<>>
  /\ 0 < call.result.num
  /\ call.result.num < call.result.den
\* the call that was made is one of levenshteinDistance
measured == call.fn = "levenshteinDistance"

\* the edit distance by its recurrence: the least number of insertions,
\* deletions and substitutions of one character that turn a into b
RECURSIVE editDistance(_, _)
editDistance(a, b) ==
  IF a = <<>> THEN Len(b)
  ELSE IF b = <<>> THEN Len(a)
  ELSE IF Head(a) = Head(b) THEN editDistance(Tail(a), Tail(b))
  ELSE 1 + Min3(editDistance(Tail(a), b),
                editDistance(a, Tail(b)),
                editDistance(Tail(a), Tail(b)))

\* C21: calculateSimilarity(a, b) is 1 when a = b, the empty strings
\* included, 0 when one of the two alone is empty, and 1 - d / max(len(a),
\* len(b)) otherwise; d, the result of levenshteinDistance, is the edit
\* distance with insertions, deletions and substitutions of cost 1; the
\* similarity is in [0, 1].
C21_SimilarityContract ==
  LET a == call.args[1]
      b == call.args[2]
      longest == Max2(Len(a), Len(b))
  IN /\ measured => call.result = editDistance(a, b)
     /\ scored =>
          /\ call.result.den > 0
          /\ 0 <= call.result.num
          /\ call.result.num <= call.result.den
          /\ a = b => call.result.num = call.result.den
          /\ (a # b /\ (a = <<>> \/ b = <<>>)) => call.result.num = 0
          /\ (a # b /\ a # <<>> /\ b # <<>>)
                => call.result.num * longest
                     = (longest - editDistance(a, b)) * call.result.den

\* a distance that needs a substitution and an insertion or a deletion
C21_Witness ==
  /\ measured
  /\ Len(call.args[1]) # Len(call.args[2])
  /\ call.result > Abs(Len(call.args[1]) - Len(call.args[2]))
  /\ call.result < Max2(Len(call.args[1]), Len(call.args[2]))
\* the call that was made is one of normalizeText
normalized == call.fn = "normalizeText"

\* C22: normalizeText is idempotent: normalizeText(normalizeText(s)) is
\* normalizeText(s) for every string s.
C22_NormalizeIdempotent ==
  normalized => normalizeText(call.result) = call.result

\* a string that normalizeText changes: its punctuation is removed, and the
\* whitespace this leaves at an end is trimmed
C22_Witness ==
  /\ normalized
  /\ call.result # call.args[1]
  /\ \E i \in 1..Len(call.args[1]) : isSpace(call.args[1][i])
  /\ \E i \in 1..Len(call.args[1]) : ~keepWordOrSpace(call.args[1][i])
  /\ call.result # <<>>
(***************************************************************************)
(* The recognizer's sessions and their restarts                            *)
(***************************************************************************)
\* C23: when more than 5 sessions in a row have ended less than 1 second
\* after they started while listening was wanted, the restarts stop:
\* shouldBeListeningRef is cleared, the end that made it so scheduled no
\* restart and reported the error through onError.
C23_QuickRestartsStop ==
  quickEnds > QuickRestartLimit =>
    /\ ~shouldBeListeningRef
    /\ last.op \in { "onend", "tooManyRestarts" } =>
          (last.op = "tooManyRestarts" /\ ~restartTimer)
\* a final transcript was passed to onResult
transcriptDelivered == last.delivered # <<>>

\* C24: a final transcript delivered while isListening of the page is false
\* is ignored: the cursor and the statuses stay as they were and no
\* celebration is started.
C24_NotListeningIgnored ==
  (transcriptDelivered /\ ~last.listening) =>
    /\ last.op = "ignored"
    /\ currentWordIndex = last.index
    /\ wordStatuses = last.statuses
    /\ last.celebrations = <<>>
    /\ last.firstMiss = 0

\* the word at the cursor was read while isListening was false
C24_Witness ==
  /\ transcriptDelivered
  /\ ~last.listening
  /\ last.index < N
  /\ last.tokens # <<>>
  /\ wordsMatch(last.tokens[1], wordAt(last.index))
  /\ wordStatuses[last.index] = "current"
\* recognition.start() was called and accepted in the step
startAccepted == recognition # "starting" /\ recognition' = "starting"

\* C25: when the cursor reaches N while listening, listening is stopped,
\* shouldBeListeningRef is cleared and recognition.stop() called, and the
\* recognition is not started again while the text is complete.
C25_AutoStopOnCompletion ==
  /\ [](isComplete => /\ ~shouldBeListeningRef
                      /\ recognition \in { "idle", "stopping", "ending" })
  /\ [][isComplete => ~startAccepted]_vars

\* the last word was read while listening, and the restart timeout that
\* onresult set after it has fired without a start
C25_Witness ==
  /\ isComplete
  /\ last.op = "restartTimeout"
  /\ ~restartTimer
  /\ isListening
  /\ recognition = "stopping"
\* a critical error was handled: onError was called with it, and
\* onPermissionDenied before that when the error is not-allowed
criticalError == last.op \in { "permissionDenied", "onerror" }

\* while shouldBeListeningRef is false, it is the user's start alone that
\* sets it or starts the recognition
startOnlyByUser ==
  (~shouldBeListeningRef /\ (startAccepted \/ shouldBeListeningRef'))
    => last'.op = "micStart"

\* C26: a critical error of the recognizer (not-allowed, audio-capture,
\* service-not-allowed) ends the listening attempt: shouldBeListeningRef is
\* cleared, isListening is false, no restart is pending, the error went to
\* onError, and to onPermissionDenied for not-allowed; the recognition is
\* not started again before the user starts listening.
C26_CriticalErrorEndsAttempt ==
  /\ [](criticalError =>
          /\ ~shouldBeListeningRef
          /\ ~isListening
          /\ ~restartTimer
          /\ recognition = "ending"
          /\ last.op = "permissionDenied" => permissionDenied)
  /\ [][startOnlyByUser]_vars

\* not-allowed hit a session in which the user was listening and had read
\* a word, with the restarts wanted
C26_Witness ==
  /\ last.op = "permissionDenied"
  /\ last.desired
  /\ last.listening
  /\ currentWordIndex > 0
  /\ ~shouldBeListeningRef

\* the final results of the event that was handled, and their text
finalResults == SelectSeq(last.event, isFinalResult)

finalText == transcriptsOf(finalResults)

\* the best confidence of the final results is a value, and below 0.5
explicitlyLow ==
  \A i \in DOMAIN finalResults :
     /\ finalResults[i].confidence # Undefined
     /\ finalResults[i].confidence < 50

endedWhileWanted == last.op \in { "onend" } /\ shouldBeListeningRef /\ recognition = "idle"

\* C28: while listening is wanted, the end of a recognition session is
\* followed by a new recognition.start(), also after a final result that
\* was passed on or rejected: the recognition is started again unless the
\* listening is given up before.
C28_EndIsFollowedByStart ==
  endedWhileWanted ~> (recognition = "starting" \/ ~shouldBeListeningRef)

\* the restart timeout has started the recognition again in an attempt in
\* which a word was read
C28_Witness ==
  /\ last.op = "restartTimeout"
  /\ recognition = "starting"
  /\ shouldBeListeningRef
  /\ ~isListening
  /\ currentWordIndex > 0

\* stopListening was called by the mic button, by the restart button or by
\* the cleanup of the page, or the page was left
stopped == last.op \in { "micStop", "restart", "unmount" }

\* C29: after stopListening or the unmount of the page, and without a later
\* startListening, recognition.start() is not called again, also when a
\* restart timeout of onresult or onend was pending then: shouldBeListeningRef
\* is false from there on, and the timeout that fires starts nothing.
C29_NoStartAfterStop ==
  /\ [](stopped => ~shouldBeListeningRef)
  /\ [](~mounted => ~shouldBeListeningRef)
  /\ [][(~shouldBeListeningRef /\ last'.op # "micStart")
          => (~startAccepted /\ ~shouldBeListeningRef')]_vars

\* the page was left with a restart timeout pending, the session has ended
\* and the timeout has fired: the recognition stays idle
C29_Witness ==
  /\ ~mounted
  /\ last.op = "restartTimeout"
  /\ recognition = "idle"
  /\ ~restartTimer
  /\ ~shouldBeListeningRef

\* the mic button was pressed
micPressed == last.op \in { "micStop", "micStart" }

\* C30: while a listening attempt is active, the user having started it and
\* neither the user nor a critical error nor the completion having stopped
\* it, the mic button stops the listening and leaves the cursor and the
\* statuses as they are, also between the end of a session and its restart.
C30_MicButtonStopsAttempt ==
  (micPressed /\ last.desired) =>
    /\ last.op = "micStop"
    /\ ~shouldBeListeningRef
    /\ currentWordIndex = last.index
    /\ wordStatuses = last.statuses

(***************************************************************************)
(* C31: an automatic restart of the recognizer never resets the session:   *)
(* after the end of a recognition session, after the timeout of onend or   *)
(* onresult that calls recognition.start(), and after the start event of   *)
(* the session it started, the cursor and the statuses are those of before, *)
(* so what was read in one recognition session is kept in the next.        *)
(***************************************************************************)
automaticRestart == last.op \in { "onend", "restartTimeout", "onstart" }

C31_AutoRestartKeepsSession ==
  automaticRestart =>
    /\ currentWordIndex = last.index
    /\ wordStatuses = last.statuses

\* the timeout restarted the recognizer in a session with a word read
C31_Witness ==
  /\ last.op = "restartTimeout"
  /\ last.desired
  /\ recognition = "starting"
  /\ last.index > 0
  /\ currentWordIndex = last.index
  /\ wordStatuses[0] = "correct"

(***************************************************************************)
(* C32: each final result that is delivered is processed against the       *)
(* cursor committed by the one processed before it: the processSpokenWords *)
(* that onResultRef holds starts from the cursor of the session as the     *)
(* results before it left it, never from a stale one, so that a result     *)
(* neither marks an index the cursor has passed nor processes it again:    *)
(* the statuses below the cursor it found are left as they were, and the   *)
(* cursor does not go back.                                                *)
(***************************************************************************)
passedBefore == { i \in 0..(N - 1) : i < last.index }

C32_SubmitFromCommittedCursor ==
  /\ [][last'.op = "submit" => onResultRef.currentWordIndex = currentWordIndex]_vars
  /\ [](last.op = "submit" =>
          /\ currentWordIndex >= last.index
          /\ \A i \in passedBefore : wordStatuses[i] = last.statuses[i])

(***************************************************************************)
(* C33: after handleRestart (stopListening, stopSpeaking, the reset) the   *)
(* session stays at cursor 0 with the initial statuses until the user      *)
(* starts listening again: no event of the recognizer changes it, and a    *)
(* final result the recognizer delivers because of the stop is not         *)
(* processed.                                                              *)
(***************************************************************************)
C33_RestartedSessionStaysFresh ==
  last.afterRestart =>
    /\ freshSession
    /\ ~shouldBeListeningRef

(***************************************************************************)
(* C34: between resets the session is monotone.  A handler other than the  *)
(* two that reset (handleRestart and the start of handleMicToggle) never   *)
(* lowers the cursor, processSpokenWords commits a cursor at or above the  *)
(* one it started from, and a word that was correct is still correct.      *)
(***************************************************************************)
resetting == last.op \in { "restart", "micStart" }

allCorrect == \A i \in 0..(N - 1) : wordStatuses[i] = "correct"

C35_CompletionReached ==
  (~isComplete /\ shouldBeListeningRef) ~> (currentWordIndex = N /\ allCorrect)

\* the last word was read: the text is complete, every word is correct, and
\* the listening was stopped
C35_Witness ==
  /\ last.op = "submit"
  /\ last.index = N - 1
  /\ last.statuses[N - 1] = "incorrect"
  /\ currentWordIndex = N
  /\ allCorrect
  /\ ~shouldBeListeningRef

(***************************************************************************)
(* C36: for an expected word whose normalized form has 1 or 3 characters,  *)
(* wordsMatch(spoken, expected) is true only where the normalized spoken   *)
(* token equals the normalized expected word: neither the tier of the      *)
(* short words (60%) nor that of the normal words (80%) accepts another    *)
(* token for such a word.                                                  *)
(***************************************************************************)
C36_ExactOnlyForOneAndThree ==
  (matched /\ Len(normalizedExpectedOf) \in { 1, 3 } /\ call.result = TRUE)
    => normalizedSpokenOf = normalizedExpectedOf

\* an expected word of three characters and a spoken token of four that holds
\* it: the tier of the normal words is entered with 75% and rejects it
C36_Witness ==
  /\ matched
  /\ call.result = FALSE
  /\ Len(normalizedExpectedOf) = 3
  /\ Len(normalizedSpokenOf) = 4
  /\ calculateSimilarity(normalizedSpokenOf, normalizedExpectedOf)
       = [num |-> 3, den |-> 4]

====
